---- MODULE Spec2Model ----
(***************************************************************************)
(* Model of the job-control core of src/demoshellforge.py: the main loop   *)
(* UnixShell.run, the spawning operations execute_pipeline and             *)
(* execute_pipeline_chain, and the built-ins jobs, fg, bg, kill, cd, exit. *)
(* The operating system's processes are the environment: a running         *)
(* process may exit at any moment, between any two steps of the shell.     *)
(***************************************************************************)
EXTENDS Integers, Sequences, FiniteSets, TLC

\* Bounds of the model (not program constants).
MaxJobs == 2       \* background registrations over the shell's lifetime
MaxProcs == 3      \* processes spawned over the shell's lifetime
MaxStages == 3     \* stages of one pipeline

VARIABLES
    pc,           \* where the control thread is
    jobs,         \* self.jobs: dict job id -> Job, in insertion order
    job_counter,  \* self.job_counter
    procs,        \* the children spawned so far: pid -> "running"/"exited"/"reaped"
    termed,       \* pids sent SIGTERM by the current command line
    line,         \* the command line being executed (parsed and classified)
    processes,    \* the local list `processes` / the local `process`
    idx,          \* the loop index of the running for-loop
    completed,    \* the local list completed_jobs / completed
    target,       \* fg's resolved job_id
    handle,       \* the redirect file object `stdout` of the spawning operation
    pipeOpen,     \* pids whose stdout pipe the shell still holds open
    out,          \* what was printed since the top of the current iteration
    assigned,     \* the ids printed by the registration notices "[id] pid"
    sigint,       \* signal_handler printed "^C" since the current line was read
    aliases,      \* self.aliases: alias name -> replacement text
    environment,  \* self.environment
    stdins,       \* per stage of `processes`: the pid whose stdout is its stdin
    text,         \* command_line: the line read, a sequence of characters
    parsed,       \* parse_command's result: commands, background, redirect_file
    argv,         \* the argument lists handed to subprocess.Popen, in order
    errleft,      \* per stage: what it still has to write to its stderr
    errbuf        \* per stage: what sits unread in its stderr pipe

\* The state of the line front end and of the stderr pipes.
lineVars == <<text, parsed, argv>>
pipeVars == <<errleft, errbuf>>

vars == <<pc, jobs, job_counter, procs, termed, line, processes, idx,
          completed, target, handle, pipeOpen, out, assigned, sigint,
          aliases, environment, stdins, lineVars, pipeVars>>

----------------------------------------------------------------------------
\* Helpers over the job table (a dict kept in insertion order).

JobIds(js) == {js[k].job_id : k \in DOMAIN js}

JobOf(js, id) == js[CHOOSE k \in DOMAIN js : js[k].job_id = id]

MaxOf(S) == CHOOSE m \in S : \A x \in S : x <= m

\* del self.jobs[jid]
del_job(js, id) == SelectSeq(js, LAMBDA j : j.job_id # id)

IdsOf(seq) == {seq[k] : k \in DOMAIN seq}

\* A mutant of del_jobs: only the first collected id is deleted.
del_jobs_first(js, done) ==
    IF done = <<>> THEN js ELSE SelectSeq(js, LAMBDA j : j.job_id # done[1])

\* for jid in completed: del self.jobs[jid]
del_jobs(js, done) == SelectSeq(js, LAMBDA j : j.job_id \notin IdsOf(done))

\* A mutant of put_job: the job is stored under the id after the counter.
put_job_after(js, id, pid) == Append(js, [job_id |-> id + 1, process |-> pid])

\* self.jobs[id] = job: replaces the value of an existing key in place,
\* appends a new key at the end.
put_job(js, id, pid) ==
    IF id \in JobIds(js)
    THEN [k \in DOMAIN js |->
            IF js[k].job_id = id THEN [job_id |-> id, process |-> pid] ELSE js[k]]
    ELSE Append(js, [job_id |-> id, process |-> pid])

\* A mutant of JobId: the id is taken from the table's size.
JobId_FromSize(js, c) == Len(js) + 1

\* Job(self.job_counter, ...): the id given to a new job.
JobId(js, c) == c

----------------------------------------------------------------------------
\* Processes.

\* subprocess.Popen(...) succeeded: a new child, running.
Spawned(ps) == Append(ps, "running")

\* Popen.poll(): a non-blocking waitpid; an exited child is reaped and its
\* returncode cached in the Popen object.
Poll(ps, p) == IF ps[p] = "exited" THEN [ps EXCEPT ![p] = "reaped"] ELSE ps

\* A mutant of is_running_call: the status is obtained by Popen.wait().
is_running_call_wait == "wait"

\* Job.is_running: the call on the process that gives the status.
is_running_call == "poll"

\* When a call on a Popen object returns: wait() only once the child has
\* exited, poll() at once.
Returns(call, ps, p) == IF call = "wait" THEN ps[p] # "running" ELSE TRUE

\* Job.is_running, evaluated after the poll.
is_running(ps, p) == ps[p] = "running"

----------------------------------------------------------------------------
\* Command lines, as parse_command and execute_builtin classify them.

NoArg == [kind |-> "none", value |-> 0]
NonNumArg == [kind |-> "nonnum", value |-> 0]
HugeArg == [kind |-> "huge", value |-> 0]
NumArg(n) == [kind |-> "num", value |-> n]

Line(k, a, n, b, r) == [kind |-> k, arg |-> a, n |-> n, bg |-> b, rd |-> r]

NoLine == Line("", NoArg, 0, FALSE, FALSE)

Builtin(k, a) == Line(k, a, 1, FALSE, FALSE)

\* The numbers a user passes to fg and kill.
ArgNumbers == 1 .. (MaxProcs + 1)

Say(o, msg, n) == Append(o, <<msg, n>>)

Stopped == {"exited", "crashed"}

\* self.aliases as __init__ sets it; a name and a text are sequences of
\* characters.
DefaultAliases ==
    (<<"l", "l">> :> <<"l", "s", " ", "-", "l", "a">>)
    @@ (<<"l", "a">> :> <<"l", "s", " ", "-", "a">>)
    @@ (<<"l">> :> <<"l", "s", " ", "-", "C", "F">>)

\* The directories cd and export name.
Dirs == {"cwd0", "dir"}

\* os.environ.copy(), as far as the shell writes it.
InitialEnvironment == [PWD |-> "cwd0"]

\* No line has been parsed.
NoParse == [commands |-> <<>>, background |-> FALSE, redirect_file |-> <<>>]

----------------------------------------------------------------------------
Init ==
    /\ pc = "top"
    /\ aliases = DefaultAliases
    /\ environment = InitialEnvironment
    /\ stdins = <<>>
    /\ text = <<>>
    /\ parsed = NoParse
    /\ argv = <<>>
    /\ errleft = <<>>
    /\ errbuf = <<>>
    /\ jobs = <<>>
    /\ job_counter = 1
    /\ procs = <<>>
    /\ termed = {}
    /\ line = NoLine
    /\ processes = <<>>
    /\ idx = 0
    /\ completed = <<>>
    /\ target = 0
    /\ handle = "none"
    /\ pipeOpen = {}
    /\ out = <<>>
    /\ assigned = <<>>
    /\ sigint = FALSE

----------------------------------------------------------------------------
\* The environment.

\* A running child exits (on its own or by a signal).
ProcExit(p) ==
    /\ pc \notin Stopped
    /\ p \in DOMAIN procs
    /\ procs[p] = "running"
    /\ procs' = [procs EXCEPT ![p] = "exited"]
    /\ UNCHANGED <<pc, jobs, job_counter, termed, line, processes, idx,
                   completed, target, handle, pipeOpen, out, assigned, sigint>>
    /\ UNCHANGED <<aliases, environment, stdins, lineVars, pipeVars>>

\* SIGINT reaches the shell: signal_handler prints "^C", builds a prompt
\* string and returns; the interrupted call (input, wait) resumes.
Interrupt ==
    /\ pc \notin Stopped
    /\ ~sigint
    /\ sigint' = TRUE
    /\ UNCHANGED <<pc, jobs, job_counter, procs, termed, line, processes, idx,
                   completed, target, handle, pipeOpen, out, assigned>>
    /\ UNCHANGED <<aliases, environment, stdins, lineVars, pipeVars>>

\* The runtime finalizes a file object that was left open and is no longer
\* referenced once the spawning operation has returned; when, and whether,
\* it does so is up to the runtime.
Finalize ==
    /\ pc = "top"
    /\ handle = "open"
    /\ handle' = "closed"
    /\ UNCHANGED <<pc, jobs, job_counter, procs, termed, line, processes, idx,
                   completed, target, pipeOpen, out, assigned, sigint>>
    /\ UNCHANGED <<aliases, environment, stdins, lineVars, pipeVars>>

----------------------------------------------------------------------------
\* UnixShell.run: the top of the loop.

\* completed_jobs = []
ReapBegin ==
    /\ pc = "top"
    /\ pc' = "reap"
    /\ idx' = 1
    /\ completed' = <<>>
    /\ out' = <<>>
    /\ line' = NoLine
    /\ processes' = <<>>
    /\ target' = 0
    /\ handle' = "none"
    /\ pipeOpen' = {}
    /\ termed' = {}
    /\ UNCHANGED <<jobs, job_counter, procs, assigned, sigint>>
    /\ stdins' = <<>>
    /\ UNCHANGED <<aliases, environment, lineVars, pipeVars>>

\* One turn of `for job_id, job in self.jobs.items()`.
ReapPoll ==
    /\ pc = "reap"
    /\ idx <= Len(jobs)
    /\ LET j == jobs[idx]
           ps == Poll(procs, j.process)
       IN /\ Returns(is_running_call, procs, j.process)
          /\ procs' = ps
          /\ IF ~is_running(ps, j.process)
             THEN /\ out' = Say(out, "Done", j.job_id)
                  /\ completed' = Append(completed, j.job_id)
             ELSE UNCHANGED <<out, completed>>
    /\ idx' = idx + 1
    /\ UNCHANGED <<pc, jobs, job_counter, termed, line, processes, target,
                   handle, pipeOpen, assigned, sigint>>
    /\ UNCHANGED <<aliases, environment, stdins, lineVars, pipeVars>>

\* `for job_id in completed_jobs: del self.jobs[job_id]`, then input().
ReapDelete ==
    /\ pc = "reap"
    /\ idx > Len(jobs)
    /\ jobs' = del_jobs(jobs, completed)
    /\ pc' = "read"
    /\ UNCHANGED <<job_counter, procs, termed, line, processes, idx,
                   completed, target, handle, pipeOpen, out, assigned, sigint>>
    /\ UNCHANGED <<aliases, environment, stdins, lineVars, pipeVars>>

----------------------------------------------------------------------------
\* Lines that run no process.

\* `if not command_line.strip(): continue`
ReadBlank ==
    /\ pc = "read"
    /\ pc' = "top"
    /\ line' = Builtin("blank", NoArg)
    /\ sigint' = FALSE
    /\ UNCHANGED <<jobs, job_counter, procs, termed, processes, idx,
                   completed, target, handle, pipeOpen, out, assigned>>
    /\ UNCHANGED <<aliases, environment, stdins, lineVars, pipeVars>>

\* input() raises EOFError: "Goodbye!", break.
ReadEOF ==
    /\ pc = "read"
    /\ pc' = "exited"
    /\ line' = Builtin("eof", NoArg)
    /\ out' = Say(out, "Goodbye!", 0)
    /\ sigint' = FALSE
    /\ UNCHANGED <<jobs, job_counter, procs, termed, processes, idx,
                   completed, target, handle, pipeOpen, assigned>>
    /\ UNCHANGED <<aliases, environment, stdins, lineVars, pipeVars>>

\* exit: sys.exit(0); SystemExit leaves run().
BuiltinExit ==
    /\ pc = "read"
    /\ pc' = "exited"
    /\ line' = Builtin("exit", NoArg)
    /\ out' = Say(out, "Goodbye!", 0)
    /\ sigint' = FALSE
    /\ UNCHANGED <<jobs, job_counter, procs, termed, processes, idx,
                   completed, target, handle, pipeOpen, assigned>>
    /\ UNCHANGED <<aliases, environment, stdins, lineVars, pipeVars>>

\* What os.chdir does with the path.
CdResults == {"ok", "FileNotFoundError", "NotADirectoryError", "PermissionError"}

\* The exceptions `except (IndexError, FileNotFoundError)` catches.
CdCaught == {"FileNotFoundError"}

\* cd: os.chdir inside try/except (IndexError, FileNotFoundError); the call
\* of execute_builtin is outside execute_pipeline's try, and run() catches
\* EOFError and KeyboardInterrupt only.
BuiltinCd ==
    /\ pc = "read"
    /\ \E res \in CdResults, d \in Dirs :
         /\ line' = Builtin("cd", NoArg)
         /\ IF res = "ok"
            THEN /\ pc' = "top"
                 /\ out' = out
                 /\ environment' = [environment EXCEPT !.PWD = d]
            ELSE IF res \in CdCaught
            THEN /\ pc' = "top"
                 /\ out' = Say(out, "cd: No such file or directory", 0)
                 /\ environment' = environment
            ELSE /\ pc' = "crashed"
                 /\ out' = Say(out, res, 0)
                 /\ environment' = environment
    /\ sigint' = FALSE
    /\ UNCHANGED <<jobs, job_counter, procs, termed, processes, idx,
                   completed, target, handle, pipeOpen, assigned>>
    /\ UNCHANGED <<aliases, stdins, lineVars, pipeVars>>

\* The user's own alias definitions: `alias name=value`; the value is one
\* token, since the line is split on whitespace before handle_alias sees it.
UserAliases == {<<"s">>} \X {<<"l">>}

\* self.aliases[name] = command.strip("'\"")
set_alias(al, name, value) ==
    [k \in DOMAIN al \cup {name} |-> IF k = name THEN value ELSE al[k]]

\* pwd, history, alias, export: no effect on jobs or processes.  alias with
\* name=value defines an alias (handle_alias), export with NAME=value sets
\* an environment variable (handle_export); without `=` they only print.
BuiltinOther ==
    /\ pc = "read"
    /\ \E k \in {"pwd", "history", "alias", "export"}, sets \in BOOLEAN,
          ua \in UserAliases, d \in Dirs :
         /\ line' = Builtin(k, NoArg)
         /\ aliases' = IF k = "alias" /\ sets
                        THEN set_alias(aliases, ua[1], ua[2]) ELSE aliases
         /\ environment' = IF k = "export" /\ sets
                            THEN [environment EXCEPT !.PWD = d] ELSE environment
    /\ pc' = "top"
    /\ sigint' = FALSE
    /\ UNCHANGED <<jobs, job_counter, procs, termed, processes, idx,
                   completed, target, handle, pipeOpen, out, assigned>>
    /\ UNCHANGED <<stdins, lineVars, pipeVars>>

\* A mutant of background_job: the job the argument names leaves the table.
background_job_resumes(js, a) ==
    IF a.kind = "num" THEN del_job(js, a.value) ELSE js

\* The job table after background_job(args): its body is one print.
background_job(js, a) == js

\* bg: background_job prints a notice.
BuiltinBg ==
    /\ pc = "read"
    /\ \E a \in {NoArg, NonNumArg} \cup {NumArg(n) : n \in ArgNumbers} :
         /\ line' = Builtin("bg", a)
         /\ jobs' = background_job(jobs, a)
    /\ out' = Say(out, "bg: job control not fully implemented", 0)
    /\ pc' = "top"
    /\ sigint' = FALSE
    /\ UNCHANGED <<job_counter, procs, termed, processes, idx,
                   completed, target, handle, pipeOpen, assigned>>
    /\ UNCHANGED <<aliases, environment, stdins, lineVars, pipeVars>>

----------------------------------------------------------------------------
\* jobs: UnixShell.show_jobs.

\* `if not self.jobs: return`, else the printing loop starts.
BuiltinJobs ==
    /\ pc = "read"
    /\ line' = Builtin("jobs", NoArg)
    /\ IF jobs = <<>>
       THEN pc' = "top" /\ idx' = idx
       ELSE pc' = "jobs_print" /\ idx' = 1
    /\ completed' = <<>>
    /\ sigint' = FALSE
    /\ UNCHANGED <<jobs, job_counter, procs, termed, processes, target,
                   handle, pipeOpen, out, assigned>>
    /\ UNCHANGED <<aliases, environment, stdins, lineVars, pipeVars>>

\* One turn of the printing loop: status = job.get_status(); print.
JobsPrint ==
    /\ pc = "jobs_print"
    /\ LET j == jobs[idx]
           ps == Poll(procs, j.process)
       IN /\ Returns(is_running_call, procs, j.process)
          /\ procs' = ps
          /\ out' = Say(out, IF is_running(ps, j.process) THEN "running" ELSE "done",
                        j.job_id)
    /\ IF idx = Len(jobs)
       THEN pc' = "jobs_clean" /\ idx' = 1
       ELSE pc' = pc /\ idx' = idx + 1
    /\ UNCHANGED <<jobs, job_counter, termed, line, processes, completed,
                   target, handle, pipeOpen, assigned, sigint>>
    /\ UNCHANGED <<aliases, environment, stdins, lineVars, pipeVars>>

\* One turn of `completed = [jid for jid, job in self.jobs.items() if not
\* job.is_running()]`: a second poll of each job; after the last turn the
\* entries collected are deleted.
JobsClean ==
    /\ pc = "jobs_clean"
    /\ LET j == jobs[idx]
           ps == Poll(procs, j.process)
           done == IF is_running(ps, j.process)
                   THEN completed ELSE Append(completed, j.job_id)
       IN /\ Returns(is_running_call, procs, j.process)
          /\ procs' = ps
          /\ completed' = done
          /\ IF idx = Len(jobs)
             THEN /\ jobs' = del_jobs(jobs, done)
                  /\ pc' = "top"
                  /\ idx' = idx
             ELSE /\ jobs' = jobs
                  /\ pc' = pc
                  /\ idx' = idx + 1
    /\ UNCHANGED <<job_counter, termed, line, processes, target, handle,
                   pipeOpen, out, assigned, sigint>>
    /\ UNCHANGED <<aliases, environment, stdins, lineVars, pipeVars>>

----------------------------------------------------------------------------
\* fg: UnixShell.foreground_job.

\* A mutant of fg_error: a non-numeric argument falls back to the current job.
fg_error_lenient(a, js) ==
    IF a.kind # "num"
    THEN IF js = <<>> THEN "fg: no current job" ELSE ""
    ELSE IF a.value \notin JobIds(js) THEN "fg: job not found" ELSE ""

\* The error foreground_job reports before it looks at any process
\* ("" when there is none).
fg_error(a, js) ==
    IF a.kind = "none"
    THEN IF js = <<>> THEN "fg: no current job" ELSE ""
    ELSE IF a.kind # "num"
    THEN "fg: invalid job number"
    ELSE IF a.value \notin JobIds(js) THEN "fg: job not found" ELSE ""

\* A mutant of fg_target: the default is the oldest job.
fg_target_min(a, js) ==
    IF a.kind = "num" THEN a.value
    ELSE CHOOSE m \in JobIds(js) : \A x \in JobIds(js) : m <= x

\* job_id = int(args[0]), or max(self.jobs.keys()) without an argument.
fg_target(a, js) ==
    IF a.kind = "num" THEN a.value ELSE MaxOf(JobIds(js))

\* The arguments fg is given.
FgArgs == {NoArg, NonNumArg} \cup {NumArg(n) : n \in ArgNumbers}

\* foreground_job up to `if job.is_running()`.
BuiltinFg ==
    /\ pc = "read"
    /\ \E a \in FgArgs :
         /\ line' = Builtin("fg", a)
         /\ IF fg_error(a, jobs) # ""
            THEN /\ out' = Say(out, fg_error(a, jobs), a.value)
                 /\ target' = 0
                 /\ pc' = "top"
                 /\ procs' = procs
            ELSE LET id == fg_target(a, jobs)
                     p == JobOf(jobs, id).process
                     ps == Poll(procs, p)
                 IN /\ Returns(is_running_call, procs, p)
                    /\ target' = id
                    /\ procs' = ps
                    /\ out' = out
                    /\ pc' = IF is_running(ps, p) THEN "fg_wait" ELSE "top"
    /\ sigint' = FALSE
    /\ UNCHANGED <<jobs, job_counter, termed, processes, idx, completed,
                   handle, pipeOpen, assigned>>
    /\ UNCHANGED <<aliases, environment, stdins, lineVars, pipeVars>>

\* job.process.wait() returns: del self.jobs[job_id].  The handler installed
\* for SIGINT returns normally, so wait() is resumed after an interrupt and
\* no KeyboardInterrupt reaches the except clause.
FgWaitDone ==
    /\ pc = "fg_wait"
    /\ LET p == JobOf(jobs, target).process
       IN /\ Returns("wait", procs, p)
          /\ procs' = [procs EXCEPT ![p] = "reaped"]
    /\ jobs' = del_job(jobs, target)
    /\ pc' = "top"
    /\ UNCHANGED <<job_counter, termed, line, processes, idx, completed,
                   target, handle, pipeOpen, out, assigned, sigint>>
    /\ UNCHANGED <<aliases, environment, stdins, lineVars, pipeVars>>

----------------------------------------------------------------------------
\* kill: UnixShell.kill_job.

\* The arguments kill is given.
KillArgs == {NoArg, NonNumArg, HugeArg} \cup {NumArg(n) : n \in ArgNumbers}

\* What os.kill does with a number that is no live child of the shell.
KillResults == {"ok", "ProcessLookupError", "PermissionError"}

\* The exceptions `except (ValueError, ProcessLookupError, PermissionError)`
\* catches.
KillCaught == {"ValueError", "ProcessLookupError", "PermissionError"}

\* Popen.terminate(): polls, and signals the child if it has not exited.
Terminate(ps, t, p) == IF Poll(ps, p)[p] = "running" THEN t \cup {p} ELSE t

\* A mutant of kill_removes: a number that is no job id removes the job
\* whose process has that pid.
kill_removes_by_pid(a, js) ==
    IF a.value \in JobIds(js) THEN {a.value}
    ELSE {js[k].job_id : k \in {i \in DOMAIN js : js[i].process = a.value}}

\* `if job_id in self.jobs: ... del self.jobs[job_id]`: the ids kill removes
\* for the number a.
kill_removes(a, js) == IF a.value \in JobIds(js) THEN {a.value} ELSE {}

\* A mutant of kill_signals: after the job's process, the process whose pid
\* is the number is signalled too.
kill_signals_both(a, p, ps, t) ==
    Terminate(ps, t, p)
        \cup (IF a.value \in DOMAIN ps /\ ps[a.value] = "running"
              THEN {a.value} ELSE {})

\* The job branch signals by job.process.terminate() alone: the pids that
\* were sent SIGTERM once kill with the number a has found the job whose
\* process is p.
kill_signals(a, p, ps, t) == Terminate(ps, t, p)

BuiltinKill ==
    /\ pc = "read"
    /\ \E a \in KillArgs, res \in KillResults :
         /\ line' = Builtin("kill", a)
         /\ IF a.kind = "none"
            THEN /\ out' = Say(out, "kill: usage: kill job_id", 0)
                 /\ pc' = "top"
                 /\ UNCHANGED <<jobs, procs, termed>>
            ELSE IF a.kind = "nonnum"
            THEN /\ out' = Say(out, "kill: ValueError", 0)
                 /\ pc' = "top"
                 /\ UNCHANGED <<jobs, procs, termed>>
            ELSE IF a.kind = "huge"
            THEN \* os.kill raises OverflowError, which nothing catches
                 /\ out' = Say(out, "OverflowError", 0)
                 /\ pc' = "crashed"
                 /\ UNCHANGED <<jobs, procs, termed>>
            ELSE IF kill_removes(a, jobs) # {}
            THEN LET id == CHOOSE i \in kill_removes(a, jobs) : TRUE
                     p == JobOf(jobs, id).process
                 IN /\ procs' = Poll(procs, p)
                    /\ termed' = kill_signals(a, p, procs, termed)
                    /\ out' = Say(out, "Terminated", a.value)
                    /\ jobs' = del_job(jobs, id)
                    /\ pc' = "top"
            ELSE IF a.value \in DOMAIN procs /\ procs[a.value] # "reaped"
            THEN \* the number is the pid of a child not yet reaped
                 /\ termed' = termed \cup {a.value}
                 /\ out' = Say(out, "Process terminated", a.value)
                 /\ pc' = "top"
                 /\ UNCHANGED <<jobs, procs>>
            ELSE /\ out' = Say(out, IF res = "ok" THEN "Process terminated"
                                    ELSE "kill: " \o res, a.value)
                 /\ pc' = IF res = "ok" \/ res \in KillCaught THEN "top" ELSE "crashed"
                 /\ UNCHANGED <<jobs, procs, termed>>
    /\ sigint' = FALSE
    /\ UNCHANGED <<job_counter, processes, idx, completed, target, handle,
                   pipeOpen, assigned>>
    /\ UNCHANGED <<aliases, environment, stdins, lineVars, pipeVars>>

----------------------------------------------------------------------------
\* External commands: execute_pipeline and execute_pipeline_chain.

\* What open(redirect_file, "w") and subprocess.Popen do.
OpenResults == {"ok", "FileNotFoundError", "OSError"}
SpawnResults == {"ok", "FileNotFoundError", "OSError"}

\* execute_pipeline's two except clauses.
SingleError(res) ==
    IF res = "FileNotFoundError" THEN "command not found"
    ELSE "Error executing command"

\* A mutant of NextCounter: the counter is not advanced.
NextCounter_stuck(c) == c

\* The job_counter after a registration: self.job_counter += 1.
NextCounter(c) == c + 1

\* A single external command, up to the wait of a foreground run.
SpawnSingle ==
    /\ pc = "read"
    /\ Len(procs) < MaxProcs
    /\ \E b \in BOOLEAN, r \in BOOLEAN, ores \in OpenResults, res \in SpawnResults :
         /\ b => job_counter <= MaxJobs
         /\ line' = Line("single", NoArg, 1, b, r)
         /\ IF r /\ ores # "ok"
            THEN \* open() raised: nothing was opened or spawned
                 /\ out' = Say(out, SingleError(ores), 0)
                 /\ handle' = "none"
                 /\ pc' = "top"
                 /\ UNCHANGED <<jobs, job_counter, procs, processes, assigned>>
            ELSE IF res # "ok"
            THEN \* Popen raised: the except clauses print and return
                 /\ out' = Say(out, SingleError(res), 0)
                 /\ handle' = IF r THEN "open" ELSE "none"
                 /\ pc' = "top"
                 /\ UNCHANGED <<jobs, job_counter, procs, processes, assigned>>
            ELSE LET pid == Len(procs) + 1
                     id == JobId(jobs, job_counter)
                 IN /\ procs' = Spawned(procs)
                    /\ processes' = <<pid>>
                    /\ IF b
                       THEN /\ jobs' = put_job(jobs, id, pid)
                            /\ out' = Say(out, "[job] pid", id)
                            /\ assigned' = Append(assigned, id)
                            /\ job_counter' = NextCounter(job_counter)
                            /\ handle' = IF r THEN "closed" ELSE "none"
                            /\ pc' = "top"
                       ELSE /\ handle' = IF r THEN "open" ELSE "none"
                            /\ pc' = "single_wait"
                            /\ UNCHANGED <<jobs, job_counter, out, assigned>>
    /\ sigint' = FALSE
    /\ UNCHANGED <<termed, idx, completed, target, pipeOpen>>
    /\ UNCHANGED <<aliases, environment, stdins, lineVars, pipeVars>>

\* process.communicate() returns once the child has exited; then
\* `if stdout and redirect_file: stdout.close()`.
SingleWaitDone ==
    /\ pc = "single_wait"
    /\ LET p == processes[1]
       IN /\ Returns("wait", procs, p)
          /\ procs' = [procs EXCEPT ![p] = "reaped"]
    /\ handle' = IF handle = "open" THEN "closed" ELSE handle
    /\ pc' = "top"
    /\ UNCHANGED <<jobs, job_counter, termed, line, processes, idx, completed,
                   target, pipeOpen, out, assigned, sigint>>
    /\ UNCHANGED <<aliases, environment, stdins, lineVars, pipeVars>>

\* A line of n >= 2 stages enters execute_pipeline_chain: processes = [].
StartChain ==
    /\ pc = "read"
    /\ \E n \in 2 .. MaxStages, b \in BOOLEAN, r \in BOOLEAN :
         /\ Len(procs) + n <= MaxProcs
         /\ b => job_counter <= MaxJobs
         /\ line' = Line("chain", NoArg, n, b, r)
    /\ pc' = "chain"
    /\ idx' = 1
    /\ processes' = <<>>
    /\ handle' = "none"
    /\ sigint' = FALSE
    /\ UNCHANGED <<jobs, job_counter, procs, termed, completed, target,
                   pipeOpen, out, assigned>>
    /\ stdins' = <<>>
    /\ UNCHANGED <<aliases, environment, lineVars, pipeVars>>

\* A mutant of stdin_stage: every later stage reads the first stage.
stdin_stage_first(i) == 1

\* `stdin = processes[i-1].stdout`: the stage whose stdout feeds stage i.
stdin_stage(i) == i - 1

\* One turn of `for i, command in enumerate(commands)` (idx = i + 1): the
\* redirect file is opened for the last stage, the stage is spawned, and
\* the previous stage's stdout is closed.  An exception ends the loop in
\* `except Exception`, which prints and returns.
ChainSpawn ==
    /\ pc = "chain"
    /\ idx <= line.n
    /\ \E ores \in OpenResults, res \in SpawnResults :
         LET last == idx = line.n
             opens == last /\ line.rd
         IN IF opens /\ ores # "ok"
            THEN /\ out' = Say(out, "Pipeline error: open", idx - 1)
                 /\ pc' = "top"
                 /\ UNCHANGED <<procs, processes, idx, handle, pipeOpen, stdins>>
            ELSE IF res # "ok"
            THEN /\ out' = Say(out, "Pipeline error: spawn", idx - 1)
                 /\ handle' = IF opens THEN "open" ELSE handle
                 /\ pc' = "top"
                 /\ UNCHANGED <<procs, processes, idx, pipeOpen, stdins>>
            ELSE LET pid == Len(procs) + 1
                 IN /\ procs' = Spawned(procs)
                    /\ processes' = Append(processes, pid)
                    /\ stdins' = Append(stdins, IF idx > 1
                                                 THEN processes[stdin_stage(idx)]
                                                 ELSE 0)
                    /\ handle' = IF opens THEN "open" ELSE handle
                    /\ pipeOpen' = (pipeOpen \ IdsOf(processes))
                                      \cup (IF last THEN {} ELSE {pid})
                    /\ idx' = idx + 1
                    /\ UNCHANGED <<pc, out>>
    /\ UNCHANGED <<jobs, job_counter, termed, line, completed, target,
                   assigned, sigint>>
    /\ UNCHANGED <<aliases, environment, lineVars, pipeVars>>

\* After the loop: a background pipeline is registered under its last
\* stage's process; a foreground one is waited for.
ChainFinish ==
    /\ pc = "chain"
    /\ idx > line.n
    /\ IF line.bg
       THEN LET id == JobId(jobs, job_counter)
            IN /\ jobs' = put_job(jobs, id, processes[Len(processes)])
               /\ out' = Say(out, "[job] pid", id)
               /\ assigned' = Append(assigned, id)
               /\ job_counter' = NextCounter(job_counter)
               /\ pc' = "top"
               /\ idx' = idx
       ELSE /\ pc' = "chain_wait"
            /\ idx' = 1
            /\ UNCHANGED <<jobs, job_counter, out, assigned>>
    /\ UNCHANGED <<procs, termed, line, processes, completed, target, handle,
                   pipeOpen, sigint>>
    /\ UNCHANGED <<aliases, environment, stdins, lineVars, pipeVars>>

\* One turn of `for process in processes: process.wait()`; after the last
\* one, communicate() on the exited last stage returns at once.
ChainWait ==
    /\ pc = "chain_wait"
    /\ LET p == processes[idx]
       IN /\ Returns("wait", procs, p)
          /\ procs' = [procs EXCEPT ![p] = "reaped"]
    /\ IF idx = Len(processes)
       THEN pc' = "top" /\ idx' = idx
       ELSE pc' = pc /\ idx' = idx + 1
    /\ UNCHANGED <<jobs, job_counter, termed, line, processes, completed,
                   target, handle, pipeOpen, out, assigned, sigint>>
    /\ UNCHANGED <<aliases, environment, stdins, lineVars, pipeVars>>

----------------------------------------------------------------------------
Next ==
    \/ \E p \in 1 .. MaxProcs : ProcExit(p)
    \/ Interrupt
    \/ Finalize
    \/ ReapBegin
    \/ ReapPoll
    \/ ReapDelete
    \/ ReadBlank
    \/ ReadEOF
    \/ BuiltinExit
    \/ BuiltinCd
    \/ BuiltinOther
    \/ BuiltinBg
    \/ BuiltinJobs
    \/ JobsPrint
    \/ JobsClean
    \/ BuiltinFg
    \/ FgWaitDone
    \/ BuiltinKill
    \/ SpawnSingle
    \/ SingleWaitDone
    \/ StartChain
    \/ ChainSpawn
    \/ ChainFinish
    \/ ChainWait

Spec == Init /\ [][Next]_vars

----------------------------------------------------------------------------
\* The claims.

Printed == IdsOf(out)

\* C1: the job ids handed out at registration are strictly increasing and
\* start at 1, so an id removed from the table is never given to a later
\* job; every id in the table is one that was handed out, once.
C1_JobIdsIncrease ==
    /\ assigned # <<>> => assigned[1] = 1
    /\ \A i, k \in DOMAIN assigned : i < k => assigned[i] < assigned[k]
    /\ JobIds(jobs) \subseteq IdsOf(assigned)
    /\ \A i, k \in DOMAIN jobs : i < k => jobs[i].job_id < jobs[k].job_id

\* C1 witness: a job is registered after an earlier job was removed.
C1_Witness ==
    /\ pc = "top"
    /\ line.kind \in {"single", "chain"}
    /\ line.bg
    /\ Len(assigned) >= 2
    /\ JobIds(jobs) = {assigned[Len(assigned)]}

\* C2: when a stage k > 0 of a pipeline fails to spawn, every stage spawned
\* before it in that attempt has been terminated and waited on by the time
\* control is back in the loop.
C2_FailedPipelineReaped ==
    (/\ pc = "top"
     /\ line.kind = "chain"
     /\ \E m \in Printed : m[1] = "Pipeline error: spawn" /\ m[2] > 0)
    => \A i \in DOMAIN processes : procs[processes[i]] = "reaped"

\* C3: when execute_pipeline / execute_pipeline_chain has returned, no
\* redirect file handle it opened is still open.
C3_RedirectHandleClosed ==
    (pc = "top" /\ line.kind \in {"single", "chain"}) => handle # "open"

\* C4: the loop ends only on the exit built-in or on end-of-input; no error
\* of a command line ends it.
C4_OnlyExitOrEofEndsLoop ==
    pc \in Stopped => (pc = "exited" /\ line.kind \in {"exit", "eof"})

\* The turn of the reap loop on the job at idx.
C5_PollStep ==
    (pc = "reap" /\ idx <= Len(jobs) /\ idx' = idx + 1) =>
        LET j == jobs[idx]
        IN IF procs[j.process] # "running"
           THEN /\ j.job_id \in IdsOf(completed')
                /\ <<"Done", j.job_id>> \in IdsOf(out')
           ELSE /\ j.job_id \notin IdsOf(completed')
                /\ <<"Done", j.job_id>> \notin IdsOf(out')

\* The end of the reap step: exactly the jobs found exited are removed.
C5_DeleteStep ==
    (pc = "reap" /\ pc' = "read") =>
        /\ jobs' = SelectSeq(jobs, LAMBDA j : <<"Done", j.job_id>> \notin Printed)
        /\ \A k \in DOMAIN jobs : procs[jobs[k].process] = "reaped"
                                     <=> <<"Done", jobs[k].job_id>> \in Printed

\* A job is registered.
C5_Registers == Len(assigned') > Len(assigned)

\* C5: the reap step at the top of an iteration gives every job whose
\* process it finds exited a completion notice and removes it before the
\* line is read, and leaves every job it finds running in the table; so no
\* job whose exit the shell has seen is in the table when a line is read or
\* a later job is created.
C5_ReapBeforePrompt ==
    /\ [][C5_PollStep /\ C5_DeleteStep]_vars
    /\ [](pc = "read" => \A k \in DOMAIN jobs : procs[jobs[k].process] # "reaped")
    /\ [][C5_Registers =>
            \A k \in DOMAIN jobs : procs[jobs[k].process] # "reaped"]_vars

\* C5 witness: at the prompt, one job was reported done and removed and a
\* running one was left in the table.
C5_Witness ==
    /\ pc = "read"
    /\ \E m \in Printed : m[1] = "Done" /\ m[2] \notin JobIds(jobs)
    /\ \E k \in DOMAIN jobs : procs[jobs[k].process] = "running"

\* The job lines show_jobs printed, in the order printed.
C6_Listing == SelectSeq(out, LAMBDA m : m[1] \in {"running", "done"})

\* C6: jobs prints every entry in ascending id order; when it returns,
\* every job it printed as running is still in the table and every job it
\* removed was printed as done.
C6_JobsRemovesWhatItReported ==
    (pc = "top" /\ line.kind = "jobs") =>
        /\ \A i, k \in DOMAIN C6_Listing :
              i < k => C6_Listing[i][2] < C6_Listing[k][2]
        /\ \A m \in Printed : m[1] = "running" => m[2] \in JobIds(jobs)
        /\ \A id \in IdsOf(completed) : <<"done", id>> \in Printed

\* The steps of the control thread that need no input from the user.
ShellStep ==
    \/ ReapBegin \/ ReapPoll \/ ReapDelete
    \/ JobsPrint \/ JobsClean
    \/ FgWaitDone \/ SingleWaitDone
    \/ ChainSpawn \/ ChainFinish \/ ChainWait

\* The control thread keeps running whenever it is not blocked; nothing
\* obliges a process to exit or the user to type.
FairSpec == Spec /\ WF_vars(ShellStep)

\* C7: the reap step and jobs never wait for a process: once started they
\* complete and control reaches the prompt, whatever the jobs do (they may
\* all keep running for ever).
C7_JobsAndReapNeverBlock ==
    (pc \in {"reap", "jobs_print", "jobs_clean"}) ~> (pc = "read")

\* C7 witness: jobs has returned with two jobs still running.
C7_Witness ==
    /\ pc = "top"
    /\ line.kind = "jobs"
    /\ Len(jobs) >= 2
    /\ \A k \in DOMAIN jobs : procs[jobs[k].process] = "running"

\* fg returns to the loop (at once, or after its wait).
C8_FgReturns == line'.kind = "fg" /\ pc \in {"read", "fg_wait"} /\ pc' = "top"

\* fg resolves its target.
C8_Resolves ==
    (pc = "read" /\ line'.kind = "fg") =>
        /\ (line'.arg.kind = "num" /\ line'.arg.value \in JobIds(jobs))
              => target' = line'.arg.value
        /\ (line'.arg.kind = "none" /\ jobs # <<>>)
              => target' = MaxOf(JobIds(jobs))

\* C8 as claimed: fg resolves its target to the numeric argument or to the
\* maximum id; when the target is in the table and no interrupt occurs, on
\* return its process has exited and exactly its entry has been removed.
C8_FgRemovesTarget ==
    [][/\ C8_Resolves
       /\ (C8_FgReturns /\ target' \in JobIds(jobs) /\ ~sigint') =>
             /\ procs'[JobOf(jobs, target').process] # "running"
             /\ jobs' = del_job(jobs, target')]_vars

\* C8 amended: as claimed when the target was still running when fg polled
\* it (fg returns from its wait); when the target's process had already
\* exited, fg returns at once and leaves the table as it was.
C8_FgRemovesWaitedTarget ==
    [][/\ C8_Resolves
       /\ (C8_FgReturns /\ target' \in JobIds(jobs) /\ ~sigint') =>
             /\ procs'[JobOf(jobs, target').process] # "running"
             /\ pc = "fg_wait" => jobs' = del_job(jobs, target')
             /\ pc = "read" => /\ procs[JobOf(jobs, target').process] # "running"
                               /\ jobs' = jobs]_vars

\* C8 witness: fg without an argument has waited for the newest of two jobs
\* and removed it; the other entry is still there.
C8_Witness ==
    /\ pc = "top"
    /\ line.kind = "fg"
    /\ line.arg.kind = "none"
    /\ ~sigint
    /\ target = 2
    /\ JobIds(jobs) = {1}
    /\ procs[jobs[1].process] = "running"

\* The error case of fg for argument a and table js, as the claim gives it.
C9_Error(a, js) ==
    IF a.kind = "none" /\ js = <<>> THEN "fg: no current job"
    ELSE IF a.kind = "nonnum" THEN "fg: invalid job number"
    ELSE IF a.kind = "num" /\ a.value \notin JobIds(js) THEN "fg: job not found"
    ELSE ""

\* C9: in each error case (no argument and an empty table, a non-numeric
\* argument, a number that is no id in the table) fg reports that error and
\* returns without waiting on or polling any process and without changing
\* the job table.
C9_FgErrorsChangeNothing ==
    [][(pc = "read" /\ line'.kind = "fg" /\ C9_Error(line'.arg, jobs) # "") =>
          /\ pc' = "top"
          /\ out' = Say(out, C9_Error(line'.arg, jobs), line'.arg.value)
          /\ jobs' = jobs
          /\ procs' = procs
          /\ job_counter' = job_counter]_vars

\* C9 witness: fg with a non-numeric argument has failed while a running
\* job and an exited, not yet polled job are in the table.
C9_Witness ==
    /\ pc = "top"
    /\ line.kind = "fg"
    /\ <<"fg: invalid job number", 0>> \in Printed
    /\ \E k \in DOMAIN jobs : procs[jobs[k].process] = "running"
    /\ \E k \in DOMAIN jobs : procs[jobs[k].process] = "exited"

\* C10: when an interrupt is delivered while fg waits on a running job, fg
\* returns with the job's entry still in the table.
C10_InterruptedFgKeepsJob ==
    [][(pc = "fg_wait" /\ sigint /\ pc' = "top") => target \in JobIds(jobs')]_vars

\* kill is executed.
KillStep == pc = "read" /\ line'.kind = "kill"

\* The job table and the id counter are as they were.
TableUnchanged == jobs' = jobs /\ job_counter' = job_counter

\* C11: kill leaves the job table and the id counter unchanged whenever it
\* fails: without an argument and with a non-numeric argument it reports
\* the error; with a number that is no job id in the table it reports what
\* signalling that pid gave (not found or permission denied included); in
\* none of these cases does an entry or the counter change.
C11_FailedKillKeepsTable ==
    [][KillStep =>
          LET a == line'.arg
          IN /\ a.kind = "none" =>
                   /\ out' = Say(out, "kill: usage: kill job_id", 0)
                   /\ TableUnchanged /\ pc' = "top"
             /\ a.kind = "nonnum" =>
                   /\ out' = Say(out, "kill: ValueError", 0)
                   /\ TableUnchanged /\ pc' = "top"
             /\ (a.kind = "num" /\ a.value \notin JobIds(jobs)) =>
                   /\ \E m \in {"Process terminated", "kill: ProcessLookupError",
                                "kill: PermissionError"} :
                         out' = Say(out, m, a.value)
                   /\ TableUnchanged /\ pc' = "top"]_vars

\* C11 witness: kill of a number that is neither a job id nor a process has
\* reported not-found while a job whose process has another pid than its id
\* is in the table.
C11_Witness ==
    /\ pc = "top"
    /\ line.kind = "kill"
    /\ <<"kill: ProcessLookupError", MaxProcs + 1>> \in Printed
    /\ \E k \in DOMAIN jobs : jobs[k].process # jobs[k].job_id

\* C12: kill with a number that is a job id in the table signals that job's
\* terminal-stage process (if it has not exited yet) and no other process,
\* in particular not the process whose pid is the number; it reports the
\* termination and removes exactly that entry.
C12_KillJobSignalsItsProcessOnly ==
    [][(KillStep /\ line'.arg.kind = "num" /\ line'.arg.value \in JobIds(jobs)) =>
          LET id == line'.arg.value
              p == JobOf(jobs, id).process
          IN /\ termed' \ termed \subseteq {p}
             /\ procs[p] = "running" => p \in termed'
             /\ out' = Say(out, "Terminated", id)
             /\ jobs' = del_job(jobs, id)
             /\ job_counter' = job_counter
             /\ pc' = "top"]_vars

\* C12 witness: kill 1 has signalled pid 2, the last stage of the pipeline
\* that was job 1, while the process with pid 1 is running and unsignalled
\* and job 2 is still in the table.
C12_Witness ==
    /\ pc = "top"
    /\ line.kind = "kill"
    /\ line.arg = NumArg(1)
    /\ termed = {2}
    /\ procs[1] = "running"
    /\ <<"Terminated", 1>> \in Printed
    /\ JobIds(jobs) = {2}

----------------------------------------------------------------------------
\* The line front end: parse_command, expand_aliases and the dispatch of
\* execute_pipeline, on lines of characters.

\* Bound: the length of a command line.
MaxLen == 5

\* The characters of a command line.
Chars == {"l", "s", " ", "|", ">", "&"}

\* The command lines read.
Texts == UNION {[1 .. n -> Chars] : n \in 0 .. MaxLen}

\* The alias tables the front end runs with: the default one, and the ones
\* after `alias s=l` and after `alias s=fg`.
AliasTables ==
    {DefaultAliases,
     set_alias(DefaultAliases, <<"s">>, <<"l">>),
     set_alias(DefaultAliases, <<"s">>, <<"f", "g">>)}

RECURSIVE lstrip(_), rstrip(_), split_on(_, _), split_ws(_)

lstrip(t) == IF t # <<>> /\ t[1] = " " THEN lstrip(Tail(t)) ELSE t

rstrip(t) ==
    IF t # <<>> /\ t[Len(t)] = " " THEN rstrip(SubSeq(t, 1, Len(t) - 1)) ELSE t

\* str.strip()
strip(t) == rstrip(lstrip(t))

\* `sep in t`
contains(t, sep) == \E i \in DOMAIN t : t[i] = sep

\* The first place of sep in t.
find(t, sep) == CHOOSE i \in DOMAIN t : t[i] = sep /\ \A k \in 1 .. (i - 1) : t[k] # sep

\* str.split(sep): the pieces between all the occurrences of sep.
split_on(t, sep) ==
    IF ~contains(t, sep) THEN <<t>>
    ELSE <<SubSeq(t, 1, find(t, sep) - 1)>>
            \o split_on(SubSeq(t, find(t, sep) + 1, Len(t)), sep)

\* str.split(): the tokens between runs of whitespace.
split_ws(t) ==
    LET u == lstrip(t)
    IN IF u = <<>> THEN <<>>
       ELSE IF ~contains(u, " ") THEN <<u>>
       ELSE <<SubSeq(u, 1, find(u, " ") - 1)>>
               \o split_ws(SubSeq(u, find(u, " "), Len(u)))

\* parse_command.  redirect_file is <<>> for None and <<name>> for a string.
parse_command(command_line) ==
    LET l0 == strip(command_line)
        background == l0 # <<>> /\ l0[Len(l0)] = "&"
        l1 == IF background THEN strip(SubSeq(l0, 1, Len(l0) - 1)) ELSE l0
        parts == split_on(l1, ">")
        l2 == IF contains(l1, ">") THEN strip(parts[1]) ELSE l1
        stages == split_on(l2, "|")
    IN [commands |-> [k \in DOMAIN stages |-> split_ws(strip(stages[k]))],
        background |-> background,
        redirect_file |-> IF contains(l1, ">") THEN <<strip(parts[2])>> ELSE <<>>]

RECURSIVE expand_aliases_again(_, _)

\* A mutant of expand_aliases: the replacement is expanded again.
expand_aliases_again(command, al) ==
    IF command # <<>> /\ command[1] \in DOMAIN al
    THEN expand_aliases_again(split_ws(al[command[1]]) \o Tail(command), al)
    ELSE command

\* expand_aliases
expand_aliases(command, al) ==
    IF command # <<>> /\ command[1] \in DOMAIN al
    THEN split_ws(al[command[1]]) \o Tail(command)
    ELSE command

\* The names execute_builtin compares command[0] with.
BuiltinNames ==
    {<<"c", "d">>, <<"p", "w", "d">>, <<"j", "o", "b", "s">>, <<"f", "g">>,
     <<"b", "g">>, <<"k", "i", "l", "l">>,
     <<"h", "i", "s", "t", "o", "r", "y">>, <<"a", "l", "i", "a", "s">>,
     <<"e", "x", "p", "o", "r", "t">>, <<"e", "x", "i", "t">>}

\* execute_builtin returns True: for an empty command (`if not command:
\* return True`) and for a built-in's name.
is_builtin(command) == command = <<>> \/ command[1] \in BuiltinNames

\* The shell has read a line: nothing else has happened yet.
LineInit ==
    /\ pc = "input"
    /\ text \in Texts
    /\ aliases \in AliasTables
    /\ environment = InitialEnvironment
    /\ stdins = <<>>
    /\ parsed = NoParse
    /\ argv = <<>>
    /\ errleft = <<>>
    /\ errbuf = <<>>
    /\ jobs = <<>>
    /\ job_counter = 1
    /\ procs = <<>>
    /\ termed = {}
    /\ line = NoLine
    /\ processes = <<>>
    /\ idx = 0
    /\ completed = <<>>
    /\ target = 0
    /\ handle = "none"
    /\ pipeOpen = {}
    /\ out = <<>>
    /\ assigned = <<>>
    /\ sigint = FALSE

\* What the front end leaves alone.
lineRest ==
    <<jobs, job_counter, procs, termed, line, processes, idx, completed,
      target, handle, pipeOpen, assigned, sigint, aliases, environment,
      stdins, text, pipeVars>>

\* `if not command_line.strip(): continue`
LineBlank ==
    /\ pc = "input"
    /\ strip(text) = <<>>
    /\ pc' = "skipped"
    /\ UNCHANGED <<parsed, argv, out, lineRest>>

\* `commands, background, redirect_file = self.parse_command(command_line)`
LineParse ==
    /\ pc = "input"
    /\ strip(text) # <<>>
    /\ parsed' = parse_command(text)
    /\ pc' = "parsed"
    /\ UNCHANGED <<argv, out, lineRest>>

\* `if redirect_file:`
redirects(p) == p.redirect_file # <<>> /\ p.redirect_file[1] # <<>>

\* execute_pipeline on the parsed line.  argv collects the argument lists
\* handed to Popen that were spawned; a built-in's own effect is not part
\* of the front end.
LineExecute ==
    /\ pc = "parsed"
    /\ LET commands == parsed.commands
           n == Len(commands)
           command == [i \in 1 .. n |-> expand_aliases(commands[i], aliases)]
       IN IF n = 1
          THEN IF is_builtin(command[1])
               THEN /\ argv' = <<>>
                    /\ out' = out
                    /\ pc' = IF command[1] = <<>> THEN "returned" ELSE "builtin"
               ELSE \E ores \in OpenResults, res \in SpawnResults :
                      /\ IF redirects(parsed) /\ ores # "ok"
                         THEN /\ out' = Say(out, SingleError(ores), 0)
                              /\ argv' = <<>>
                         ELSE IF res # "ok"
                         THEN /\ out' = Say(out, SingleError(res), 0)
                              /\ argv' = <<>>
                         ELSE /\ out' = out
                              /\ argv' = <<command[1]>>
                      /\ pc' = "returned"
          ELSE \E ores \in OpenResults, f \in 0 .. n :
                 \* stage f is the one the system refuses to spawn (0: none);
                 \* Popen([]) raises IndexError
                 LET noopen == redirects(parsed) /\ ores # "ok"
                     bad == {i \in 1 .. n : \/ command[i] = <<>>
                                            \/ i = f
                                            \/ i = n /\ noopen}
                     k == IF bad = {} THEN n + 1
                          ELSE CHOOSE i \in bad : \A j \in bad : i <= j
                 IN /\ argv' = [i \in 1 .. (k - 1) |-> command[i]]
                    /\ out' = IF bad = {} THEN out
                              ELSE IF k = n /\ noopen /\ command[k] # <<>> /\ k # f
                              THEN Say(out, "Pipeline error: open", k - 1)
                              ELSE Say(out, "Pipeline error: spawn", k - 1)
                    /\ pc' = "returned"
    /\ UNCHANGED <<parsed, lineRest>>

LineNext == LineBlank \/ LineParse \/ LineExecute

LineSpec == LineInit /\ [][LineNext]_vars

\* C13: a stage with no tokens is never dropped silently: executing a line
\* whose parse has an empty stage reports an error.
C13_EmptyStageReported ==
    (pc = "returned" /\ \E i \in DOMAIN parsed.commands : parsed.commands[i] = <<>>)
        => out # <<>>

\* The text after the first ">" of a line, up to a trailing "&".
AfterFirstGt(t) ==
    LET l0 == strip(t)
        l1 == IF l0[Len(l0)] = "&" THEN strip(SubSeq(l0, 1, Len(l0) - 1)) ELSE l0
    IN SubSeq(l1, find(l1, ">") + 1, Len(l1))

\* C16: a line with ">" is split at the first ">" only: the redirect target
\* is the whole trimmed text after it.
C16_RedirectTargetIsAllAfterFirstGt ==
    (pc = "parsed" /\ contains(text, ">"))
        => parsed.redirect_file = <<strip(AfterFirstGt(text))>>

\* C17: alias expansion is single-pass and per stage.  Every spawned stage
\* whose first token is a key is the value's tokens followed by the stage's
\* other tokens; the replacement is not expanded again; any other stage is
\* unchanged; `ll s` runs [ls, -la, s].
C17_AliasExpansionSinglePass ==
    pc = "returned" =>
        /\ \A i \in DOMAIN argv :
             LET c == parsed.commands[i]
                 e == argv[i]
             IN IF c[1] \in DOMAIN aliases
                THEN LET v == split_ws(aliases[c[1]])
                     IN /\ Len(e) = Len(v) + Len(c) - 1
                        /\ SubSeq(e, 1, Len(v)) = v
                        /\ SubSeq(e, Len(v) + 1, Len(e)) = Tail(c)
                ELSE e = c
        /\ (text = <<"l", "l", " ", "s">> /\ argv # <<>>)
              => argv = << << <<"l", "s">>, <<"-", "l", "a">>, <<"s">> >> >>
        /\ (text = <<"s">> /\ aliases = set_alias(DefaultAliases, <<"s">>, <<"l">>)
               /\ argv # <<>>)
              => argv = << << <<"l">> >> >>

\* A pipeline whose stage `s` was replaced by `l`, itself a key, and
\* spawned, next to a stage whose first token is a key with an argument.
C17_Witness ==
    /\ pc = "returned"
    /\ text = <<"s", "|", "l", "l", " ">>
    /\ aliases = set_alias(DefaultAliases, <<"s">>, <<"l">>)
    /\ Len(argv) = 2

\* C14: a background command line is registered and control returns to
\* the loop without waiting: the registering step adds exactly one job
\* under an id that is neither in the table nor was ever assigned, for the
\* line's last process, reports it, goes back to the top of the loop and
\* has reaped none of the line's processes; and a background line never
\* enters a wait.
C14_BackgroundReturnsAtOnce ==
    [][/\ C5_Registers =>
            LET id == assigned'[Len(assigned')]
            IN /\ line'.bg
               /\ id \notin JobIds(jobs)
               /\ id \notin IdsOf(assigned)
               /\ Len(jobs') = Len(jobs) + 1
               /\ JobIds(jobs') = JobIds(jobs) \cup {id}
               /\ \A j \in JobIds(jobs) : JobOf(jobs', j) = JobOf(jobs, j)
               /\ JobOf(jobs', id).process = processes'[Len(processes')]
               /\ out' = Say(out, "[job] pid", id)
               /\ pc' = "top"
               /\ \A p \in IdsOf(processes') :
                    /\ procs'[p] # "reaped"
                    /\ p \in DOMAIN procs => procs'[p] = procs[p]
       /\ line'.bg => pc' \notin {"single_wait", "chain_wait"}]_vars

\* C14 witness: the loop is at the prompt again with two jobs in the table
\* and every process still running.
C14_Witness ==
    /\ pc = "read"
    /\ Len(jobs) = 2
    /\ Len(procs) = MaxProcs
    /\ \A p \in DOMAIN procs : procs[p] = "running"

\* C15: while a pipeline is built its stages are spawned in order, every
\* stage after the first reads the stdout of the stage before it, and the
\* shell holds the stdout of the newest stage only, until the next stage
\* is spawned; that stdout is still open when the next stage is spawned
\* and closed right after; once all stages are spawned the shell holds no
\* pipe between stages.
C15_PipesChainedAndClosed ==
    /\ [](pc \in {"chain", "chain_wait"} =>
            LET k == Len(processes)
            IN /\ k = idx - 1 \/ pc = "chain_wait"
               /\ \A i, j \in 1 .. k : i < j => processes[i] < processes[j]
               /\ Len(stdins) = k
               /\ \A i \in 1 .. k :
                    stdins[i] = IF i = 1 THEN 0 ELSE processes[i - 1]
               /\ pipeOpen = IF 1 <= k /\ k < line.n THEN {processes[k]} ELSE {})
    /\ [][(pc = "chain" /\ Len(processes') = Len(processes) + 1 /\ idx > 1)
             => /\ stdins'[idx] \in pipeOpen
                /\ stdins'[idx] \notin pipeOpen']_vars
    /\ [](line.kind = "chain" /\ Len(processes) = line.n => pipeOpen = {})

\* C15 witness: a pipeline of three stages has been built and is waited
\* for.
C15_Witness ==
    /\ pc = "chain_wait"
    /\ line.n = 3
    /\ stdins = <<0, processes[1], processes[2]>>
    /\ pipeOpen = {}

\* C18: bg, whatever its argument and whatever the state, prints its
\* notice and returns: the job table, the id counter, the aliases, the
\* environment and every process are as before, and no signal is sent.
C18_BgChangesNothing ==
    [][(pc = "read" /\ line'.kind = "bg")
          => /\ out' = Say(out, "bg: job control not fully implemented", 0)
             /\ pc' = "top"
             /\ jobs' = jobs
             /\ job_counter' = job_counter
             /\ aliases' = aliases
             /\ environment' = environment
             /\ procs' = procs
             /\ termed' = termed]_vars

\* C18 witness: bg has returned, given the id of a job that is in the
\* table, after an alias and the environment were set.
C18_Witness ==
    /\ pc = "top"
    /\ line.kind = "bg"
    /\ line.arg.kind = "num"
    /\ line.arg.value \in JobIds(jobs)
    /\ Len(jobs) = 2
    /\ aliases # DefaultAliases
    /\ environment # InitialEnvironment

\* The steps of the operations that may change the job table: the reap of
\* the loop, the reap of jobs, fg and kill.
C20_TableStep ==
    \/ pc \in {"reap", "jobs_clean", "fg_wait"}
    \/ pc = "read" /\ line'.kind \in {"fg", "kill"}

\* C20: the id counter changes only when a background line is registered,
\* and the job table only then or in a step of a reap, of fg or of kill; a
\* step that ends a line with an error message of a spawn, and a step of a
\* foreground line, change neither; every id in the table is below the
\* counter.
C20_TableChangesOnlyByJobOperations ==
    /\ [][/\ job_counter' # job_counter => C5_Registers
          /\ jobs' # jobs => C5_Registers \/ C20_TableStep
          /\ C5_Registers => line'.bg /\ line'.kind \in {"single", "chain"}
          /\ (line'.kind \in {"single", "chain"} /\ out' # out /\ ~C5_Registers)
                => TableUnchanged
          /\ (line'.kind \in {"single", "chain"} /\ ~line'.bg)
                => TableUnchanged \/ pc = "reap"]_vars
    /\ [](\A id \in JobIds(jobs) : id < job_counter)

\* C20 witness: a background pipeline has failed to spawn while a job is
\* in the table.
C20_Witness ==
    /\ pc = "top"
    /\ line.kind = "chain"
    /\ line.bg
    /\ out # <<>>
    /\ out[Len(out)][1] = "Pipeline error: spawn"
    /\ JobIds(jobs) = {1}
    /\ job_counter = 2

----------------------------------------------------------------------------
\* A foreground pipeline after its construction: the stages write to their
\* stderr pipes, which the shell reads only after the waits.

\* Bound: the bytes a stage writes to its stderr before it exits.
MaxErr == 2

\* Bound: the capacity of a pipe, in bytes.
PipeCap == 1

\* execute_pipeline_chain has spawned the n stages of a foreground line
\* and is about to wait for the first one.
PipeInit ==
    /\ pc = "chain_wait"
    /\ idx = 1
    /\ \E n \in 2 .. MaxStages, r \in BOOLEAN :
         /\ n <= MaxProcs
         /\ line = Line("chain", NoArg, n, FALSE, r)
         /\ processes = [i \in 1 .. n |-> i]
         /\ procs = [i \in 1 .. n |-> "running"]
         /\ stdins = [i \in 1 .. n |-> IF i = 1 THEN 0 ELSE stdin_stage(i)]
         /\ handle = IF r THEN "open" ELSE "none"
         /\ errleft \in [1 .. n -> 0 .. MaxErr]
         /\ errbuf = [i \in 1 .. n |-> 0]
    /\ pipeOpen = {}
    /\ aliases = DefaultAliases
    /\ environment = InitialEnvironment
    /\ text = <<>>
    /\ parsed = NoParse
    /\ argv = <<>>
    /\ jobs = <<>>
    /\ job_counter = 1
    /\ termed = {}
    /\ completed = <<>>
    /\ target = 0
    /\ out = <<>>
    /\ assigned = <<>>
    /\ sigint = FALSE

\* What a stage's own step leaves alone.
pipeRest ==
    <<pc, jobs, job_counter, termed, line, processes, idx, completed, target,
      handle, pipeOpen, out, assigned, sigint, aliases, environment, stdins,
      lineVars>>

\* Stage i writes a byte to its stderr, `stderr=subprocess.PIPE`: the
\* write blocks while the pipe is full.
StageWrite(i) ==
    /\ i \in DOMAIN errleft
    /\ procs[i] = "running"
    /\ errleft[i] > 0
    /\ errbuf[i] < PipeCap
    /\ errleft' = [errleft EXCEPT ![i] = @ - 1]
    /\ errbuf' = [errbuf EXCEPT ![i] = @ + 1]
    /\ UNCHANGED <<procs, pipeRest>>

\* Stage i exits: it has written all it had to write, and its input is at
\* end-of-file (no stage before it is running).
StageExit(i) ==
    /\ i \in DOMAIN errleft
    /\ procs[i] = "running"
    /\ errleft[i] = 0
    /\ IF i = 1 THEN TRUE ELSE procs[i - 1] # "running"
    /\ procs' = [procs EXCEPT ![i] = "exited"]
    /\ UNCHANGED <<pipeVars, pipeRest>>

PipeNext ==
    \/ \E i \in 1 .. MaxStages : StageWrite(i)
    \/ \E i \in 1 .. MaxStages : StageExit(i)
    \/ ChainWait

PipeSpec == PipeInit /\ [][PipeNext]_vars

\* C19: a foreground pipeline whose stages exit once their input is at
\* end-of-file and their output is consumed always returns to the loop:
\* until it has, the shell or a stage can take a step.
C19_ForegroundPipelineNeverStuck ==
    pc = "top" \/ ENABLED PipeNext

====
